---- MODULE Spec2Model ----
(***************************************************************************)
(* DynLaborFertModelClass (src/DynLaborFertModel.py): the backward solver  *)
(* solve(), the interior-period objective value_of_choice() and the        *)
(* forward simulator simulate().                                          *)
(*                                                                         *)
(* Indices are 0-based as in the source.  A solution-grid cell is the      *)
(* tuple <<t, i_n, i_s, i_a, i_k>>, a value-grid slice is <<t, n, s>>.     *)
(* The optimizer (scipy.optimize.minimize) and the interpolator            *)
(* (consav interp_2d) are libraries: each optimizer call returns a fresh   *)
(* result, identified by the number of the call, and an interpolation is   *)
(* identified by the slice it reads.  Probabilities and draws are in       *)
(* percent, assets and capital in whole units, wages in 1/1000, hours in   *)
(* 1/100000.                                                               *)
(***************************************************************************)
EXTENDS Integers, Sequences, FiniteSets, TLC

VARIABLES
    par,     \* self.par: T, Nn, Ns, Na, Nk, simN, p_birth, p_spouse, a_min
    phase,   \* "solve", "solve_raised", "solved", "sim_raised", "simulated"
    pos,     \* position of solve()'s loop nest: j (period position), i_n, i_a, i_k, i_s
    sol,     \* self.sol: the grids c, h, V, each a function of the cell
    writes,  \* number of stores solve() has made to each cell
    res,     \* solve()'s local res: the last result of minimize
    init,    \* the initial guess handed to the last minimize call
    obj,     \* the last evaluation of value_of_choice: slices read, EV_next
    last,    \* the cell the last solve() step was at, and which branch it took
    calls,   \* number of minimize calls of the last-period and interior branches
    sim      \* self.sim: n, s, n_init, the policy slices read, and the loop position

vars == <<par, phase, pos, sol, writes, res, init, obj, last, calls, sim>>

----------------------------------------------------------------------------
(* Bounds of the model *)

MaxT == 3
MaxNn == 2
MaxNa == 3
MaxNk == 3
MaxSimN == 1

(* Values the parameters and inputs are drawn from *)
NsVals == {1, 2}
\* <<p_birth, p_spouse>>: the baseline, no births, and an uncertain spouse
ProbVals == {<<10, 100>>, <<0, 100>>, <<10, 50>>}
AMinVals == {-3}
\* np.random.uniform draws from [0, 1)
DrawVals == {0, 5, 99}

(* Program constants, in 1/1000 *)
w == 1000
tau == 100
alpha == 100

----------------------------------------------------------------------------
(* Values *)

NaN == -1

Max(a, b) == IF a >= b THEN a ELSE b

RECURSIVE BitAnd(_, _)
BitAnd(a, b) ==
    IF a = 0 \/ b = 0 THEN 0
    ELSE (IF a % 2 = 1 /\ b % 2 = 1 THEN 1 ELSE 0) + 2 * BitAnd(a \div 2, b \div 2)

----------------------------------------------------------------------------
(* allocate() *)

\* nonlinspace (consav) yields an increasing grid that starts at its lower
\* end; the grids here are increasing with a fixed step.  With a_min = -3 the
\* floor of 2.0 on hours_min binds at some capital levels and not at others.
a_grid(i_a) == par.a_min + 3 * i_a
k_grid(i_k) == 10 * i_k
n_grid(i_n) == i_n
spouse_grid(i_s) == i_s

Shape(p) == (0 .. p.T - 1) \X (0 .. p.Nn - 1) \X (0 .. p.Ns - 1)
            \X (0 .. p.Na - 1) \X (0 .. p.Nk - 1)

Cells == Shape(par)

Params ==
    {p \in [T : 1 .. MaxT, Nn : 1 .. MaxNn, Ns : NsVals, Na : 1 .. MaxNa,
            Nk : 1 .. MaxNk, simN : 1 .. MaxSimN, p_birth : 0 .. 100,
            p_spouse : 0 .. 100, a_min : AMinVals] :
        <<p.p_birth, p.p_spouse>> \in ProbVals}

NoRes == [x |-> <<>>, kind |-> "none", idx |-> <<>>]
NoBy == [kind |-> "none", idx |-> <<>>]
NoInit == [src |-> "none", x |-> <<>>, by |-> NoBy]
NoObj == [called |-> FALSE, raised |-> FALSE, reads |-> <<>>, EV |-> <<>>]
NoLast == [kind |-> "none", idx |-> <<>>, raised |-> FALSE]

allocate(p) ==
    /\ par = p
    /\ sol = [c |-> [x \in Shape(p) |-> NaN],
              h |-> [x \in Shape(p) |-> NaN],
              V |-> [x \in Shape(p) |-> NaN]]
    /\ sim = [n |-> [i \in 0 .. p.simN - 1 |-> [t \in 0 .. p.T - 1 |-> 0]],
              s |-> [i \in 0 .. p.simN - 1 |-> [t \in 0 .. p.T - 1 |-> 0]],
              pol |-> [i \in 0 .. p.simN - 1 |-> [t \in 0 .. p.T - 1 |-> <<>>]],
              n_init |-> [i \in 0 .. p.simN - 1 |-> 0],
              len |-> [i \in 0 .. p.simN - 1 |-> 0],
              i |-> 0, t |-> 0]
    /\ writes = [x \in Shape(p) |-> 0]

Start ==
    /\ phase = "solve"
    /\ pos = [j |-> 0, i_n |-> 0, i_a |-> 0, i_k |-> 0, i_s |-> 0]
    /\ res = NoRes
    /\ init = NoInit
    /\ obj = NoObj
    /\ last = NoLast
    /\ calls = [last |-> 0, interior |-> 0]

\* one simulated individual, every grid size
Init ==
    /\ \E p \in Params : p.simN = 1 /\ allocate(p)
    /\ Start

\* every population size, one asset and one capital grid point
InitSim ==
    /\ \E p \in Params : p.Na = 1 /\ p.Nk = 1 /\ allocate(p)
    /\ Start

----------------------------------------------------------------------------
(* Period reward model *)

\* (1.0 - par.tau) * par.w_vec[t] * (1.0 + par.alpha * capital), in 1/1000
wage_func(capital, t) ==
    ((((1000 - tau) * w) \div 1000) * (1000 + alpha * capital)) \div 1000

\* - assets / wage + 1.0e-5, then np.maximum(hours_min, 2.0), in 1/100000
hours_min(assets, capital, t) ==
    Max(((0 - assets) * 100000000) \div wage_func(capital, t) + 1, 200000)

----------------------------------------------------------------------------
(* value_of_choice *)

\* sol.V[t+1, n, s] exists (numpy raises IndexError otherwise)
InGrid(sl) == sl[1] < par.T /\ sl[2] < par.Nn /\ sl[3] < par.Ns

SlicesAt(t) == {t} \X (0 .. par.Nn - 1) \X (0 .. par.Ns - 1)

\* par.p_spouse * (par.p_birth * V_next_birth + (1 - par.p_birth) * V_next_no_birth)
\*   + (1 - par.p_spouse) * V_next_no_spouse
\* as the coefficient (in 1/10000) of each slice's interpolated value
Mixture(birth, no_birth, no_spouse) ==
    [sl \in SlicesAt(no_birth[1]) |->
          (IF sl = birth THEN par.p_spouse * par.p_birth ELSE 0)
        + (IF sl = no_birth THEN par.p_spouse * (100 - par.p_birth) ELSE 0)
        + (IF sl = no_spouse THEN (100 - par.p_spouse) * 100 ELSE 0)]

value_of_choice(kids, t) ==
    LET spouse_next == 1
        no_spouse_next == 0
        no_birth == <<t + 1, kids, spouse_next>>
        capped == kids >= par.Nn - 1
        kids_next == IF capped THEN kids ELSE kids + 1
        birth == IF capped THEN no_birth ELSE <<t + 1, kids_next, spouse_next>>
        no_spouse == <<t + 1, kids_next, no_spouse_next>>
        order == IF capped THEN <<no_birth, no_spouse>>
                 ELSE <<no_birth, birth, no_spouse>>
        bad == {k \in 1 .. Len(order) : ~InGrid(order[k])}
        firstBad == CHOOSE k \in bad : \A m \in bad : k <= m
    IN  IF bad # {}
        THEN [called |-> TRUE, raised |-> TRUE,
              reads |-> SubSeq(order, 1, firstBad - 1), EV |-> <<>>]
        ELSE [called |-> TRUE, raised |-> FALSE,
              reads |-> order, EV |-> Mixture(birth, no_birth, no_spouse)]

----------------------------------------------------------------------------
(* solve() *)

\* the loop over range(par.T), not reversed
PeriodAt_ascending(j) == j

\* the j-th period of reversed(range(par.T))
PeriodAt(j) == par.T - 1 - j

\* the last-period test off by one
IsLastPeriod_off(t) == t = par.T

IsLastPeriod(t) == t = par.T - 1

\* the cell index without the spouse loop variable
idx_of_no_spouse(t, i_n, i_s, i_a, i_k) == <<t, i_n, 0, i_a, i_k>>

idx_of(t, i_n, i_s, i_a, i_k) == <<t, i_n, i_s, i_a, i_k>>

\* the warm start read from the cell being solved
warm_idx_same(t, i_n, i_s, i_a, i_k) == <<t, i_n, i_s, i_a, i_k>>

\* sol.h[t,i_n,i_s,i_a-1,i_k]
warm_idx(t, i_n, i_s, i_a, i_k) == <<t, i_n, i_s, i_a - 1, i_k>>

\* the test with each comparison parenthesised: (i_n==0) & i_s & (i_a==0) & (i_k==0)
first_guess_parenthesised(i_n, i_s, i_a, i_k) ==
    i_n = 0 /\ i_s % 2 = 1 /\ i_a = 0 /\ i_k = 0

\* (i_n == 0 & i_s & i_a==0 & i_k==0): & binds tighter than ==, so this is
\* the chained comparison i_n == (0 & i_s & i_a) == (0 & i_k) == 0
first_guess(i_n, i_s, i_a, i_k) ==
    LET b1 == BitAnd(BitAnd(0, i_s), i_a)
        b2 == BitAnd(0, i_k)
    IN  i_n = b1 /\ b1 = b2 /\ b2 = 0

\* the loop nest: t, i_n, i_a, i_k, i_s (innermost)
Advance(p) ==
    IF p.i_s + 1 < par.Ns THEN [p EXCEPT !.i_s = @ + 1]
    ELSE IF p.i_k + 1 < par.Nk THEN [p EXCEPT !.i_s = 0, !.i_k = @ + 1]
    ELSE IF p.i_a + 1 < par.Na THEN [p EXCEPT !.i_s = 0, !.i_k = 0, !.i_a = @ + 1]
    ELSE IF p.i_n + 1 < par.Nn
         THEN [p EXCEPT !.i_s = 0, !.i_k = 0, !.i_a = 0, !.i_n = @ + 1]
    ELSE [j |-> p.j + 1, i_n |-> 0, i_a |-> 0, i_k |-> 0, i_s |-> 0]

Store(idx, c, h, V) ==
    /\ sol' = [c |-> [sol.c EXCEPT ![idx] = c],
               h |-> [sol.h EXCEPT ![idx] = h],
               V |-> [sol.V EXCEPT ![idx] = V]]
    /\ writes' = [writes EXCEPT ![idx] = @ + 1]

Continue ==
    /\ pos' = Advance(pos)
    /\ phase' = IF Advance(pos).j >= par.T THEN "solved" ELSE "solve"

Raise(p) ==
    /\ phase' = p
    /\ UNCHANGED <<pos, sol, writes, res>>

SolveLastCell ==
    /\ phase = "solve"
    /\ LET t == PeriodAt(pos.j)
           idx == idx_of(t, pos.i_n, pos.i_s, pos.i_a, pos.i_k)
           assets == a_grid(pos.i_a)
           capital == k_grid(pos.i_k)
           id == calls.last + calls.interior + 1
       IN  /\ IsLastPeriod(t)
           /\ init' = IF pos.i_a = 0
                      THEN [src |-> "hours_min", x |-> <<hours_min(assets, capital, t)>>,
                            by |-> NoBy]
                      ELSE [src |-> "sol.h",
                            x |-> <<sol.h[warm_idx(t, pos.i_n, pos.i_s, pos.i_a, pos.i_k)]>>,
                            by |-> NoBy]
           /\ calls' = [calls EXCEPT !.last = @ + 1]
           /\ res' = [x |-> <<id>>, kind |-> "last", idx |-> idx]
           /\ Store(idx, id, id, id)
           /\ last' = [kind |-> "last", idx |-> idx, raised |-> FALSE]
           /\ Continue
           /\ UNCHANGED <<par, obj, sim>>

SolveInteriorCell ==
    /\ phase = "solve"
    /\ LET t == PeriodAt(pos.j)
           idx == idx_of(t, pos.i_n, pos.i_s, pos.i_a, pos.i_k)
           kids == n_grid(pos.i_n)
           id == calls.last + calls.interior + 1
           default == first_guess(pos.i_n, pos.i_s, pos.i_a, pos.i_k)
           voc == value_of_choice(kids, t)
       IN  /\ ~IsLastPeriod(t)
           /\ UNCHANGED <<par, sim>>
           /\ IF ~default /\ res.kind = "none"
              THEN \* res is not bound yet
                   /\ last' = [kind |-> "interior", idx |-> idx, raised |-> TRUE]
                   /\ Raise("solve_raised")
                   /\ UNCHANGED <<init, obj, calls>>
              ELSE \* np.array([lb_c,1.0]); lb_c = 0.000001 rounds to 0
                   /\ init' = IF default
                              THEN [src |-> "default", x |-> <<0, 100000>>, by |-> NoBy]
                              ELSE [src |-> "res.x", x |-> res.x,
                                    by |-> [kind |-> res.kind, idx |-> res.idx]]
                   /\ calls' = [calls EXCEPT !.interior = @ + 1]
                   /\ obj' = voc
                   /\ last' = [kind |-> "interior", idx |-> idx, raised |-> voc.raised]
                   /\ IF voc.raised
                      THEN Raise("solve_raised")
                      ELSE /\ res' = [x |-> <<id, id>>, kind |-> "interior", idx |-> idx]
                           /\ Store(idx, id, id, id)
                           /\ Continue

----------------------------------------------------------------------------
(* simulate() *)

\* the birth test without the cap on the number of children
birth_uncapped(draw, n, s) ==
    IF draw <= par.p_birth /\ s = 1 THEN 1 ELSE 0

birth(draw, n, s) ==
    IF draw <= par.p_birth /\ n < par.Nn - 1 /\ s = 1 THEN 1 ELSE 0

spouse_draw(draw) == IF draw <= par.p_spouse THEN 1 ELSE 0

\* one pass of the loop over t for individual sim.i; n0 is sim.n_init[i] as
\* supplied by the caller, read when t = 0.  sim.c and sim.h are interpolated
\* from the slice idx_sol, recorded in sim.pol; sim.a and sim.k are reals that
\* feed only those interpolations.  sim.len[i] counts the entries of sim.n[i]
\* stored so far.
SimStep(draw_birth, draw_spouse, n0) ==
    /\ phase = "solved"
    /\ LET i == sim.i
           t == sim.t
           n_row == IF t = 0 THEN [sim.n[i] EXCEPT ![0] = n0] ELSE sim.n[i]
           n_in == IF t = 0 THEN [sim.n_init EXCEPT ![i] = n0] ELSE sim.n_init
           spouse == spouse_draw(draw_spouse)
           s_row == [sim.s[i] EXCEPT ![t] = spouse]
           idx_sol == <<t, n_row[t], spouse>>
           b == birth(draw_birth, n_row[t], spouse)
           n_next == IF t < par.T - 1 THEN [n_row EXCEPT ![t + 1] = n_row[t] + b]
                     ELSE n_row
           len0 == Max(sim.len[i], 1)
       IN  IF ~InGrid(idx_sol)
           THEN /\ sim' = [sim EXCEPT !.n[i] = n_row, !.s[i] = s_row, !.n_init = n_in,
                                      !.len[i] = len0]
                /\ phase' = "sim_raised"
           ELSE /\ sim' = [sim EXCEPT !.n[i] = n_next, !.s[i] = s_row, !.n_init = n_in,
                                      !.pol[i][t] = idx_sol,
                                      !.len[i] = IF t < par.T - 1 THEN t + 2 ELSE len0,
                                      !.t = IF t + 1 < par.T THEN t + 1 ELSE 0,
                                      !.i = IF t + 1 < par.T THEN i ELSE i + 1]
                /\ phase' = IF t + 1 >= par.T /\ i + 1 >= par.simN
                            THEN "simulated" ELSE "solved"
    /\ UNCHANGED <<par, pos, sol, writes, res, init, obj, last, calls>>

----------------------------------------------------------------------------

Next ==
    \/ SolveLastCell
    \/ SolveInteriorCell
    \/ \E db \in DrawVals, ds \in DrawVals, n0 \in 0 .. par.Nn - 1 : SimStep(db, ds, n0)

Spec == Init /\ [][Next]_vars

SpecSim == InitSim /\ [][Next]_vars

----------------------------------------------------------------------------
(* Properties *)

Populated(c) == sol.c[c] # NaN /\ sol.h[c] # NaN /\ sol.V[c] # NaN

SliceCells(sl) == {sl \o <<i_a, i_k>> : i_a \in 0 .. par.Na - 1, i_k \in 0 .. par.Nk - 1}

Solved == phase \in {"solved", "sim_raised", "simulated"}

\* C1: solve() visits the periods in descending order, a cell of period t is
\* computed only when every cell of the later periods is stored and no cell of
\* an earlier period is, and every cell of every slice of sol.V[t+1] that
\* value_of_choice reads for a cell of period t has been stored.
C1_BackwardOrder ==
    /\ phase = "solve" =>
          \A c \in Cells :
              /\ c[1] > PeriodAt(pos.j) => Populated(c)
              /\ c[1] < PeriodAt(pos.j) => writes[c] = 0
    /\ last.kind = "interior" =>
          \A k \in 1 .. Len(obj.reads) :
              /\ obj.reads[k][1] = last.idx[1] + 1
              /\ \A c \in SliceCells(obj.reads[k]) : sol.V[c] # NaN

C1_Witness ==
    /\ par.T = 3
    /\ last.kind = "interior" /\ ~last.raised
    /\ last.idx[1] = 0
    /\ Len(obj.reads) = 3

\* C2: in simulate(), every stored children count is in 0..Nn-1, and from one
\* period to the next it stays or grows by one.
C2_ChildrenMonotone ==
    \A i \in 0 .. par.simN - 1 : \A t \in 0 .. par.T - 1 :
        t < sim.len[i] =>
            /\ sim.n[i][t] >= 0 /\ sim.n[i][t] <= par.Nn - 1
            /\ t >= 1 => /\ sim.n[i][t] >= sim.n[i][t - 1]
                         /\ sim.n[i][t] <= sim.n[i][t - 1] + 1

C2_Witness ==
    \E i \in 0 .. par.simN - 1 :
        /\ par.Nn = 2 /\ par.T = 3
        /\ sim.len[i] = 3
        /\ sim.n[i] = [t \in 0 .. 2 |-> IF t = 0 THEN 0 ELSE 1]
        /\ sim.s[i][1] = 1

\* C3: with p_birth = 0 every stored children count equals the initial one,
\* whatever the birth draws are.
C3_NoBirths ==
    par.p_birth = 0 =>
        \A i \in 0 .. par.simN - 1 : \A t \in 0 .. par.T - 1 :
            t < sim.len[i] => sim.n[i][t] = sim.n_init[i]

\* C4: the expected continuation value of an interior cell with children level
\* kids mixes slice (t+1, min(kids+1, Nn-1), 1) with weight p_spouse*p_birth,
\* slice (t+1, kids, 1) with weight p_spouse*(1-p_birth) and slice
\* (t+1, kids, 0) with weight 1-p_spouse.
C4_ExpectedValue ==
    (last.kind = "interior" /\ ~last.raised) =>
        LET t == last.idx[1]
            kids == n_grid(last.idx[2])
            capped == IF kids + 1 <= par.Nn - 1 THEN kids + 1 ELSE par.Nn - 1
        IN  obj.EV = Mixture(<<t + 1, capped, 1>>, <<t + 1, kids, 1>>, <<t + 1, kids, 0>>)

SmallGrid == par.Na = 3 /\ par.Nk = 3 /\ par.Nn = 1 /\ par.Ns = 1 /\ par.T = 2

\* C5: on the grid Na=3, Nk=3, Nn=1, Ns=1, T=2 solve() does not raise, every
\* slice the interior objective reads is in the grid, and every cell is
\* populated once solve() has ended.
C5_SmallGridSolves ==
    SmallGrid =>
        /\ phase # "solve_raised"
        /\ ~obj.raised
        /\ phase # "solve" => \A c \in Cells : Populated(c)

\* C6: no cell is stored twice, a cell is populated exactly when it has been
\* stored, and once solve() has returned, and all through simulate(), every cell
\* is populated and has been stored exactly once.
C6_WrittenOnce ==
    /\ \A c \in Cells : writes[c] <= 1 /\ (writes[c] = 1 <=> Populated(c))
    /\ Solved => \A c \in Cells : writes[c] = 1

C6_Witness ==
    /\ phase = "simulated"
    /\ par.T = 3 /\ par.Nn = 2 /\ par.Ns = 2 /\ par.Na = 3 /\ par.Nk = 3
    /\ \A c \in Cells : writes[c] = 1

\* C7: with T = 1 solve() never takes the interior branch and never evaluates
\* value_of_choice, and it returns with every cell solved by the last-period
\* optimizer.
C7_SinglePeriod ==
    par.T = 1 =>
        /\ calls.interior = 0
        /\ ~obj.called
        /\ phase # "solve_raised"
        /\ last.kind # "interior"
        /\ phase # "solve" =>
              /\ calls.last = Cardinality(Cells)
              /\ \A c \in Cells : Populated(c)

C7_Witness ==
    /\ par.T = 1 /\ par.Nn = 2 /\ par.Ns = 2 /\ par.Na = 3 /\ par.Nk = 3
    /\ phase = "solved"
    /\ calls.last = 36

\* C8: an interior cell is given the default guess (lb_c, 1.0) only if it is
\* the first interior cell solve() visits.
C8_DefaultGuessOnce ==
    (last.kind = "interior" /\ init.src = "default") =>
        last.idx = <<par.T - 2, 0, 0, 0, 0>>

\* C9: in the last period a cell with i_a > 0 is given the stored hours of the
\* cell at i_a-1 (same t, children, spouse and capital), which is populated;
\* a cell with i_a = 0 is given at least 2.0 hours, enough for assets plus
\* labour income to be non-negative, and no more than the margin above that
\* unless the floor of 2.0 binds.
C9_LastPeriodGuess ==
    last.kind = "last" =>
        LET t == last.idx[1]
            i_a == last.idx[4]
            prev == <<t, last.idx[2], last.idx[3], i_a - 1, last.idx[5]>>
            debt == (0 - a_grid(i_a)) * 100000000
            wage == wage_func(k_grid(last.idx[5]), t)
        IN  /\ t = par.T - 1
            /\ Len(init.x) = 1
            /\ i_a > 0 => /\ init.src = "sol.h"
                          /\ Populated(prev)
                          /\ init.x[1] = sol.h[prev]
            /\ i_a = 0 => /\ init.src = "hours_min"
                          /\ init.x[1] >= 200000
                          /\ init.x[1] * wage >= debt
                          /\ init.x[1] = 200000 \/ (init.x[1] - 1) * wage <= debt

C9_Witness ==
    /\ last.kind = "last"
    /\ last.idx[4] = 2 /\ last.idx[5] = 1 /\ last.idx[3] = 1 /\ last.idx[2] = 1
    /\ init.src = "sol.h"

\* C10: when an interior cell takes its guess from res.x, res is the
\* two-component result of an interior optimization of the same period.
C10_WarmStartSamePeriod ==
    (last.kind = "interior" /\ init.src = "res.x") =>
        /\ init.by.kind = "interior"
        /\ Len(init.x) = 2
        /\ init.by.idx[1] = last.idx[1]

C10_Witness ==
    /\ last.kind = "interior" /\ ~last.raised
    /\ init.src = "res.x"
    /\ last.idx = <<0, 1, 0, 0, 0>>
    /\ par.T = 3

====
